---- MODULE Spec2Model ----
(***************************************************************************)
(* pidify.py: one run of main() over one DMP export.  The rendered text is *)
(* a sequence of whitespace-separated tokens; a line break is the token    *)
(* NL.  Every optional Python value is None or Some(v).                    *)
(***************************************************************************)
EXTENDS Integers, Sequences, FiniteSets, TLC

None == [some |-> FALSE]
Some(v) == [some |-> TRUE, val |-> v]

\* Python truthiness of an optional sequence-valued value ('' and [] are falsy).
Truthy(o) == o.some /\ o.val # <<>>

Min(S) == CHOOSE m \in S : \A n \in S : m <= n

---------------------------------------------------------------------------
(* Bounds of the model *)

\* longest list of candidates or works in a reply, in the run of main()
MaxItems == 1
\* longest candidate list in a reply to the funder-name organization query,
\* where search_ror_for_funder is examined by itself
MaxRorItems == 2
\* longest candidate list in a funder-registry reply, where
\* search_funder_registry is examined by itself
MaxFunderItems == 2

---------------------------------------------------------------------------
(* The text model *)

NL == "\n"

\* tokens in which the substring 'ORCID' occurs
ContainsORCID(tok) == tok \in {"ORCID:", "ORCID"}

\* tokens of the shape https?://doi\.org/[^\s]+
IsDoiUrl(tok) == tok \in {"https://doi.org/10.1/xyz", "http://doi.org/10.2/abc"}

\* identifier-shaped tokens 0000-000a-bccc-dddd: the digits a and b
IdShape ==
    [tok \in {"0000-0002-1111-234X", "0000-0001-5000-0001",
              "0000-0001-4000-0000", "0000-0003-5000-0002"} |->
        CASE tok = "0000-0002-1111-234X" -> [a |-> 2, b |-> 1]
          [] tok = "0000-0001-5000-0001" -> [a |-> 1, b |-> 5]
          [] tok = "0000-0001-4000-0000" -> [a |-> 1, b |-> 4]
          [] tok = "0000-0003-5000-0002" -> [a |-> 3, b |-> 5]]

\* the pattern 0000-000(1-[5-9]|2-[0-9]|3-[0-4])\d{3}-\d{3}[\dX]
OrcidPattern(tok) ==
    /\ tok \in DOMAIN IdShape
    /\ \/ IdShape[tok].a = 1 /\ IdShape[tok].b \in 5..9
       \/ IdShape[tok].a = 2 /\ IdShape[tok].b \in 0..9
       \/ IdShape[tok].a = 3 /\ IdShape[tok].b \in 0..4

\* index of the first token at or after i that is not white space, Len+1 if none
SkipWs(text, i) ==
    Min({j \in i..Len(text) : text[j] # NL} \cup {Len(text) + 1})

\* index of the first token at or after i equal to stop, Len+1 if none
Until(text, i, stop) ==
    Min({j \in i..Len(text) : text[j] = stop} \cup {Len(text) + 1})

RECURSIVE Strip(_)
\* str.strip(): leading and trailing white space removed
Strip(s) ==
    IF s = <<>> THEN s
    ELSE IF Head(s) = NL THEN Strip(Tail(s))
    ELSE IF s[Len(s)] = NL THEN Strip(SubSeq(s, 1, Len(s) - 1))
    ELSE s

\* re.search(label + r'\s+([^stop]+)', text): the group of the leftmost match.
\* \s+ takes the space or the line breaks after the label; the group then runs
\* to the first stop character.  When the next token is the stop character
\* itself (or the text ends), the group can only be a line break that \s+
\* gives back, so it needs two of them and strips to the empty string.
LabelMatch(text, label, stop) ==
    LET group(i) ==
            LET j == SkipWs(text, i + 1)
                k == Until(text, j, stop)
            IN  IF j <= Len(text) /\ k > j
                THEN Some(Strip(SubSeq(text, j, k - 1)))
                ELSE IF stop # NL /\ j - (i + 1) >= 2
                THEN Some(<<>>)
                ELSE None
        hits == {i \in 1..Len(text) : text[i] = label /\ group(i).some}
    IN  IF hits = {} THEN None ELSE group(Min(hits))

---------------------------------------------------------------------------
(* The extractors *)

extract_dmp_id(text) ==
    LET hits == {i \in 1..Len(text) :
                    /\ text[i] = "DMP ID:"
                    /\ SkipWs(text, i + 1) <= Len(text)
                    /\ IsDoiUrl(text[SkipWs(text, i + 1)])}
    IN  IF hits = {} THEN None
        ELSE Some(<<text[SkipWs(text, Min(hits) + 1)]>>)

\* dateutil's parse(...).date().isoformat() on the written forms of the
\* model; an ISO date is <<year, month, day>>
ParsedDate(date_str) ==
    CASE date_str = <<"January", "15,", "2024">> -> Some(<<2024, 1, 15>>)
      [] date_str = <<"2024-01-15">> -> Some(<<2024, 1, 15>>)
      [] date_str = <<"1", "Mar", "2023">> -> Some(<<2023, 3, 1>>)
      [] OTHER -> None

convert_to_iso(date_str) == ParsedDate(date_str)

extract_date(text, label) ==
    LET m == LabelMatch(text, label, NL)
    IN  IF m.some THEN convert_to_iso(m.val) ELSE None

extract_dates(text) ==
    <<extract_date(text, "Start date:"),
      extract_date(text, "End date:"),
      extract_date(text, "Last modified:")>>

\* 'ORCID' in text
OrcidInText(text) == \E i \in 1..Len(text) : ContainsORCID(text[i])

\* re.search(r'Creator:\s+([^\n]+?)(?:\s+-\s+ORCID:|$)', text): the lazy group
\* ends at the first token followed by '- ORCID:' or by the end of the text
CreatorBeforeOrcid(text) ==
    LET ends(i) ==
            LET j == SkipWs(text, i + 1)
                k == Until(text, j, NL)
            IN  {m \in j..(k - 1) :
                    \/ LET d == SkipWs(text, m + 1)
                       IN  /\ d <= Len(text) /\ text[d] = "-"
                           /\ SkipWs(text, d + 1) <= Len(text)
                           /\ text[SkipWs(text, d + 1)] = "ORCID:"
                    \/ m = Len(text)
                    \/ m + 1 = Len(text) /\ text[m + 1] = NL}
        hits == {i \in 1..Len(text) : text[i] = "Creator:" /\ ends(i) # {}}
    IN  IF hits = {} THEN None
        ELSE LET i == Min(hits)
             IN  Some(Strip(SubSeq(text, SkipWs(text, i + 1), Min(ends(i)))))

extract_creator(text) ==
    IF OrcidInText(text)
    THEN <<CreatorBeforeOrcid(text), TRUE>>
    ELSE <<LabelMatch(text, "Creator:", NL), FALSE>>

extract_orcid(text) ==
    LET hits == {i \in 1..Len(text) : OrcidPattern(text[i])}
    IN  IF hits = {} THEN None ELSE Some(<<text[Min(hits)]>>)

extract_affiliation(text) == LabelMatch(text, "Affiliation:", "(")

extract_funder(text) == LabelMatch(text, "Funder:", "(")

extract_funding_opportunity_number(text) ==
    LabelMatch(text, "Funding opportunity number:", NL)

---------------------------------------------------------------------------
(* The external lookups, as functions of the reply to their one GET request *)

\* researcher-registry replies: exc = requests.get raised; root = the
\* expanded-search element was found; ids = the texts of the orcid-id tags
OrcidReplies ==
    {[exc |-> TRUE, status |-> 0, root |-> FALSE, num_found |-> 0, ids |-> <<>>],
     [exc |-> FALSE, status |-> 500, root |-> FALSE, num_found |-> 0, ids |-> <<>>],
     [exc |-> FALSE, status |-> 200, root |-> FALSE, num_found |-> 0, ids |-> <<>>],
     [exc |-> FALSE, status |-> 200, root |-> TRUE, num_found |-> 0, ids |-> <<>>],
     [exc |-> FALSE, status |-> 200, root |-> TRUE, num_found |-> 1, ids |-> <<>>],
     [exc |-> FALSE, status |-> 200, root |-> TRUE, num_found |-> 1,
      ids |-> << <<"0000-0002-9999-0000">> >>],
     [exc |-> FALSE, status |-> 200, root |-> TRUE, num_found |-> 1,
      ids |-> << <<>> >>],
     [exc |-> FALSE, status |-> 200, root |-> TRUE, num_found |-> 2,
      ids |-> << <<"0000-0001-8888-0000">>, <<"0000-0002-9999-0000">> >>]}

search_orcid(resp) ==
    IF resp.exc THEN None
    ELSE IF resp.status = 200
    THEN IF resp.root /\ resp.num_found # 0
         THEN IF resp.ids = <<>> THEN None      \* IndexError, caught
              ELSE Some(Strip(resp.ids[1]))
         ELSE None
    ELSE None

\* organization-registry ids, by position in the reply
RorId == <<"https://ror.org/01", "https://ror.org/02", "https://ror.org/03">>

\* replies to the affiliation query: json = the body parsed; has_items = the
\* body has the key 'items'; each candidate carries its 'chosen' flag
RorReplies(n) ==
    {[exc |-> TRUE, json |-> FALSE, has_items |-> FALSE, items |-> <<>>],
     [exc |-> FALSE, json |-> FALSE, has_items |-> FALSE, items |-> <<>>],
     [exc |-> FALSE, json |-> TRUE, has_items |-> FALSE, items |-> <<>>]}
    \cup
    {[exc |-> FALSE, json |-> TRUE, has_items |-> TRUE, items |-> its] :
        its \in UNION {{[i \in 1..k |-> [chosen |-> f[i], id |-> <<RorId[i]>>]] :
                           f \in [1..k -> BOOLEAN]}
                       : k \in 0..n}}

RECURSIVE FirstChosenId(_)
\* the loop of search_ror: the id of the first candidate flagged chosen
FirstChosenId(results) ==
    IF results = <<>> THEN None
    ELSE IF Head(results).chosen THEN Some(Head(results).id)
    ELSE FirstChosenId(Tail(results))

search_ror(resp) ==
    IF resp.exc \/ ~resp.json \/ ~resp.has_items THEN None  \* caught, logged
    ELSE FirstChosenId(resp.items)

\* candidates of the funder-name query: FundRef.preferred is None or an id,
\* FundRef.all lists up to two alternatives
FunderCandidate(i) ==
    {[chosen |-> c, id |-> <<RorId[i]>>, preferred |-> p, all |-> a] :
        c \in BOOLEAN,
        p \in {None, Some(10 * i)},
        a \in {<<>>, <<10 * i + 1>>, <<10 * i + 1, 10 * i + 2>>}}

RorFunderReplies(n) ==
    {[exc |-> TRUE, json |-> FALSE, items |-> <<>>],
     [exc |-> FALSE, json |-> FALSE, items |-> <<>>]}
    \cup
    {[exc |-> FALSE, json |-> TRUE, items |-> its] :
        its \in UNION {{f \in [1..k -> UNION {FunderCandidate(i) : i \in 1..k}] :
                           \A i \in 1..k : f[i] \in FunderCandidate(i)}
                       : k \in 0..n}}

RECURSIVE FunderLoopNoBreak(_)
\* FunderLoop without its break: a later chosen candidate overwrites the result
FunderLoopNoBreak(results) ==
    IF results = <<>> THEN <<None, None>>
    ELSE LET record == Head(results)
             rest == FunderLoopNoBreak(Tail(results))
         IN  IF record.chosen /\ ~rest[1].some
             THEN <<Some(record.id),
                    IF ~record.preferred.some /\ Len(record.all) = 1
                    THEN Some(record.all[1])
                    ELSE record.preferred>>
             ELSE rest

RECURSIVE FunderLoop(_)
\* the loop of search_ror_for_funder over the candidates
FunderLoop(results) ==
    IF results = <<>> THEN <<None, None>>
    ELSE LET record == Head(results)
         IN  IF record.chosen
             THEN <<Some(record.id),
                    IF ~record.preferred.some /\ Len(record.all) = 1
                    THEN Some(record.all[1])
                    ELSE record.preferred>>
             ELSE FunderLoop(Tail(results))

\* raised = the exception of requests.get or r.json() leaves the function
search_ror_for_funder(resp) ==
    IF resp.exc \/ ~resp.json
    THEN [raised |-> TRUE, value |-> <<None, None>>]
    ELSE [raised |-> FALSE, value |-> FunderLoop(resp.items)]

---------------------------------------------------------------------------
(* The funder registry matcher.  Funder names are made of one-letter       *)
(* words, so that a name is exactly its tokens joined by single spaces.    *)

\* str.lower() of a one-letter word
Lower(tok) ==
    CASE tok = "A" -> "a"
      [] tok = "B" -> "b"
      [] tok = "C" -> "c"
      [] OTHER -> tok

\* the order of sorted() on the lower-cased words
Rank(tok) ==
    CASE tok = "a" -> 1
      [] tok = "b" -> 2
      [] tok = "c" -> 3
      [] OTHER -> 4

LowerAll(name) == [i \in 1..Len(name) |-> Lower(name[i])]

normalize_text(name) == Strip(LowerAll(name))

RECURSIVE Insert(_, _)
Insert(tok, sorted) ==
    IF sorted = <<>> THEN <<tok>>
    ELSE IF Rank(tok) <= Rank(Head(sorted)) THEN <<tok>> \o sorted
    ELSE <<Head(sorted)>> \o Insert(tok, Tail(sorted))

RECURSIVE SortTokens(_)
SortTokens(name) ==
    IF name = <<>> THEN <<>>
    ELSE Insert(Head(name), SortTokens(Tail(name)))

RECURSIVE Join(_)
\* ' '.join(tokens), as a sequence of characters
Join(tokens) ==
    IF tokens = <<>> THEN <<>>
    ELSE IF Len(tokens) = 1 THEN tokens
    ELSE <<Head(tokens), " ">> \o Join(Tail(tokens))

RECURSIVE LCS(_, _)
\* length of a longest common subsequence
LCS(s, t) ==
    IF s = <<>> \/ t = <<>> THEN 0
    ELSE IF Head(s) = Head(t) THEN 1 + LCS(Tail(s), Tail(t))
    ELSE LET x == LCS(Tail(s), t)
             y == LCS(s, Tail(t))
         IN  IF x >= y THEN x ELSE y

\* thefuzz's fuzz.token_sort_ratio: both strings lower-cased, their words
\* sorted and joined, then the rounded percentage 200 * LCS / (len + len);
\* 0 when an argument is None or empty
token_sort_ratio(s1, s2) ==
    IF ~s1.some \/ ~s2.some THEN 0
    ELSE LET p1 == Join(SortTokens(Strip(LowerAll(s1.val))))
             p2 == Join(SortTokens(Strip(LowerAll(s2.val))))
             total == Len(p1) + Len(p2)
         IN  IF p1 = <<>> \/ p2 = <<>> THEN 0
             ELSE (400 * LCS(p1, p2) + total) \div (2 * total)

\* the threshold of search_funder_registry
MatchRatio == 95

FunderNames == {<<"a", "b">>, <<"B", "A">>, <<"a", "c">>}
AltNameLists == {<<>>, << <<"A", "b">> >>, << <<"a", "b">>, <<"c">> >>}

\* replies of the funder registry: has_items = the body has message.items;
\* the id of a candidate is 100 + its position
FunderRegistryReplies(n) ==
    {[exc |-> TRUE, json |-> FALSE, has_items |-> FALSE, items |-> <<>>],
     [exc |-> FALSE, json |-> FALSE, has_items |-> FALSE, items |-> <<>>],
     [exc |-> FALSE, json |-> TRUE, has_items |-> FALSE, items |-> <<>>]}
    \cup
    {[exc |-> FALSE, json |-> TRUE, has_items |-> TRUE,
      items |-> [i \in 1..Len(its) |->
                    [name |-> its[i][1], alt_names |-> its[i][2], id |-> 100 + i]]] :
        its \in UNION {[1..k -> FunderNames \X AltNameLists] : k \in 0..n}}

\* x in list
InList(x, list) == \E i \in 1..Len(list) : Some(list[i]) = x

RECURSIVE RegistryLoopRatioOnly(_, _)
\* RegistryLoop without the alternate-name test
RegistryLoopRatioOnly(org_name, items) ==
    IF items = <<>> THEN None
    ELSE LET item == Head(items)
             match_ratio == token_sort_ratio(org_name,
                                             Some(normalize_text(item.name)))
         IN  IF match_ratio > 95 THEN Some(item.id)
             ELSE RegistryLoopRatioOnly(org_name, Tail(items))

RECURSIVE RegistryLoop(_, _)
\* the for ... else loop of search_funder_registry
RegistryLoop(org_name, items) ==
    IF items = <<>> THEN None
    ELSE LET item == Head(items)
             match_ratio == token_sort_ratio(org_name,
                                             Some(normalize_text(item.name)))
         IN  IF match_ratio > MatchRatio THEN Some(item.id)
             ELSE IF InList(org_name, item.alt_names) THEN Some(item.id)
             ELSE RegistryLoop(org_name, Tail(items))

search_funder_registry(org_name, resp) ==
    IF resp.exc \/ ~resp.json \/ ~resp.has_items
    THEN [raised |-> TRUE, value |-> None]
    ELSE [raised |-> FALSE, value |-> RegistryLoop(org_name, resp.items)]

---------------------------------------------------------------------------
(* The works registries *)

EmptyDict == [k \in {} |-> <<>>]

\* a work of the award query: has_doi = the work has the key 'DOI'; its
\* DOI is its position, its funder list is empty or holds the funders 2, 1
AwardWork(i) ==
    {[has_doi |-> h, DOI |-> i, funder |-> f] :
        h \in BOOLEAN, f \in {<<>>, <<2, 1>>}}

AwardReplies(n) ==
    {[exc |-> TRUE, status |-> 0, json |-> FALSE, items |-> <<>>],
     [exc |-> FALSE, status |-> 404, json |-> TRUE, items |-> <<>>],
     [exc |-> FALSE, status |-> 200, json |-> FALSE, items |-> <<>>]}
    \cup
    {[exc |-> FALSE, status |-> 200, json |-> TRUE, items |-> its] :
        its \in UNION {{f \in [1..k -> UNION {AwardWork(i) : i \in 1..k}] :
                           \A i \in 1..k : f[i] \in AwardWork(i)}
                       : k \in 0..n}}

RECURSIVE AwardLoop(_, _)
\* the loop of get_award_works; KeyError on a work without 'DOI'
AwardLoop(items, results) ==
    IF items = <<>> THEN Some(results)
    ELSE IF ~Head(items).has_doi THEN Some(EmptyDict)
    ELSE AwardLoop(Tail(items),
                   [dois |-> Append(results.dois, Head(items).DOI),
                    funder_ids |-> results.funder_ids \o Head(items).funder])

get_award_works(resp) ==
    IF resp.exc THEN Some(EmptyDict)
    ELSE IF resp.status = 200
    THEN IF ~resp.json THEN Some(EmptyDict)
         ELSE AwardLoop(resp.items, [dois |-> <<>>, funder_ids |-> <<>>])
    ELSE None                \* the function ends without a return

\* replies of the works index: each result's 'doi' is None or a DOI
OpenAlexReplies(n) ==
    {[exc |-> TRUE, status |-> 0, json |-> FALSE, results |-> <<>>],
     [exc |-> FALSE, status |-> 503, json |-> TRUE, results |-> <<>>],
     [exc |-> FALSE, status |-> 200, json |-> FALSE, results |-> <<>>]}
    \cup
    {[exc |-> FALSE, status |-> 200, json |-> TRUE, results |-> r] :
        r \in UNION {[1..k -> {None, Some(7)}] : k \in 0..n}}

RECURSIVE Dois(_)
Dois(works) ==
    IF works = <<>> THEN <<>>
    ELSE IF Head(works).some THEN <<Head(works).val>> \o Dois(Tail(works))
    ELSE Dois(Tail(works))

search_openalex_works(resp) ==
    IF resp.exc THEN None
    ELSE IF resp.status = 200
    THEN IF ~resp.json THEN None ELSE Some(Dois(resp.results))
    ELSE None

---------------------------------------------------------------------------
(* The documents of the model *)

DmpUrl == "https://doi.org/10.1/xyz"

\* only the DMP ID label
ScenarioA == <<"DMP ID:", DmpUrl>>

\* a creator line with a valid inline identifier
ScenarioB ==
    <<"Creator:", "Jane", "Doe", "-", "ORCID:", "0000-0002-1111-234X", NL,
      "Start date:", "January", "15,", "2024">>

\* every label, no mention of ORCID
FullPlan ==
    <<"DMP ID:", DmpUrl, NL,
      "Creator:", "Jane", "Doe", NL,
      "Affiliation:", "MIT", "(", "mit.edu", ")", NL,
      "Funder:", "A", "b", "(", "ab.gov", ")", NL,
      "Funding opportunity number:", "PD-1", NL,
      "Start date:", "2024-01-15", NL,
      "End date:", "soon", NL,
      "Last modified:", "1", "Mar", "2023">>

\* a creator line whose inline identifier fails the pattern
InvalidInline ==
    <<"Creator:", "Jane", "Doe", "-", "ORCID:", "0000-0001-4000-0000", NL,
      "Start date:", "2024-01-15">>

\* no Creator label; ORCID and a valid identifier in running text
OrcidElsewhere ==
    <<"Funder:", "A", "b", "(", "ab.gov", ")", NL,
      "See", "ORCID", "0000-0001-5000-0001", NL,
      "Start date:", "2024-01-15">>

\* a creator line without identifier, ORCID mentioned on a later line
MentionOnly ==
    <<"Creator:", "Jane", "Doe", NL,
      "Affiliation:", "MIT", "(", "mit.edu", ")", NL,
      "Start date:", "2024-01-15", NL,
      "Register", "at", "ORCID">>

\* a valid inline identifier, a start date that does not parse
NoStartDate ==
    <<"Creator:", "Jane", "Doe", "-", "ORCID:", "0000-0002-1111-234X", NL,
      "Start date:", "soon">>

\* a creator and a start date, nothing else
CreatorOnly ==
    <<"Creator:", "Jane", "Doe", NL, "Start date:", "1", "Mar", "2023">>

\* a valid inline identifier, an identifier-shaped token on an earlier line
StrayIdentifier ==
    <<"Contact:", "0000-0001-5000-0001", NL,
      "Creator:", "Jane", "Doe", "-", "ORCID:", "0000-0002-1111-234X">>

Documents ==
    {ScenarioA, ScenarioB, FullPlan, InvalidInline, OrcidElsewhere, MentionOnly,
     NoStartDate, CreatorOnly, StrayIdentifier}

\* str(e) of the exception pdfminer raises on a missing file
ErrorText == <<"[Errno", "2]", "No", "such", "file", "or", "directory:", "'plan.pdf'">>

Files ==
    {[readable |-> TRUE, content |-> d] : d \in Documents}
    \cup {[readable |-> FALSE, content |-> <<>>]}

---------------------------------------------------------------------------
(* The run of main() *)

VARIABLES
    pc,                 \* the statement of main() to run next
    input_pdf,          \* the file named by --input_pdf
    extracted_text,
    dmp_id, start_date, end_date, last_modified,
    creator, orcid_present, affiliation, funder_name,
    funding_opportunity_number,
    orcid_id, ror_id_affiliation, ror_id_funder, funder_id_from_ror,
    funder_id, crossref_info, author_works,
    response,           \* the reply to the latest GET request
    calls,              \* GET requests made so far, per lookup
    output              \* the JSON document printed

fields == <<dmp_id, start_date, end_date, last_modified, creator, orcid_present,
            affiliation, funder_name, funding_opportunity_number>>
matches == <<orcid_id, ror_id_affiliation, ror_id_funder, funder_id_from_ror,
             funder_id, crossref_info, author_works>>
vars == <<pc, input_pdf, extracted_text, fields, matches, response, calls, output>>

Lookups == {"search_orcid", "search_ror", "search_ror_for_funder",
            "search_funder_registry", "get_award_works", "search_openalex_works"}

Called(l) == [calls EXCEPT ![l] = @ + 1]

Init ==
    /\ pc = "extract_text_from_pdf"
    /\ input_pdf \in Files
    /\ extracted_text = None
    /\ dmp_id = None /\ start_date = None /\ end_date = None
    /\ last_modified = None /\ creator = None /\ orcid_present = FALSE
    /\ affiliation = None /\ funder_name = None
    /\ funding_opportunity_number = None
    /\ orcid_id = None /\ ror_id_affiliation = None /\ ror_id_funder = None
    /\ funder_id_from_ror = None /\ funder_id = None /\ crossref_info = None
    /\ author_works = None
    /\ response = None
    /\ calls = [l \in Lookups |-> 0]
    /\ output = None

\* extract_text(pdf_path), or str(e) when it raises
extract_text_from_pdf(file) ==
    IF file.readable THEN file.content ELSE ErrorText

RenderText ==
    /\ pc = "extract_text_from_pdf"
    /\ extracted_text' = Some(extract_text_from_pdf(input_pdf))
    /\ pc' = "extract"
    /\ UNCHANGED <<input_pdf, fields, matches, response, calls, output>>

ExtractFields ==
    /\ pc = "extract"
    /\ LET text == extracted_text.val
       IN  /\ dmp_id' = extract_dmp_id(text)
           /\ start_date' = extract_dates(text)[1]
           /\ end_date' = extract_dates(text)[2]
           /\ last_modified' = extract_dates(text)[3]
           /\ creator' = extract_creator(text)[1]
           /\ orcid_present' = extract_creator(text)[2]
           /\ affiliation' = extract_affiliation(text)
           /\ funder_name' = extract_funder(text)
           /\ funding_opportunity_number' =
                  LET m == extract_funding_opportunity_number(text)
                  IN  IF m.some THEN Some(<<m.val>>) ELSE None
    /\ pc' = "orcid"
    /\ UNCHANGED <<input_pdf, extracted_text, matches, response, calls, output>>

\* ResolveOrcid with the test of orcid_present dropped: the registry is
\* searched in every run
ResolveOrcidAlwaysSearch(Replies) ==
    /\ pc = "orcid"
    /\ \E resp \in Replies :
          /\ response' = resp
          /\ orcid_id' = search_orcid(resp)
    /\ calls' = Called("search_orcid")
    /\ pc' = "search_ror"
    /\ UNCHANGED <<input_pdf, extracted_text, fields, ror_id_affiliation,
                   ror_id_funder, funder_id_from_ror, funder_id, crossref_info,
                   author_works, output>>

\* if orcid_present: extract_orcid(text) else: search_orcid(creator, affiliation)
ResolveOrcid(Replies) ==
    /\ pc = "orcid"
    /\ \/ /\ orcid_present
          /\ orcid_id' = extract_orcid(extracted_text.val)
          /\ UNCHANGED <<response, calls>>
       \/ /\ ~orcid_present
          /\ \E resp \in Replies :
                /\ response' = resp
                /\ orcid_id' = search_orcid(resp)
          /\ calls' = Called("search_orcid")
    /\ pc' = "search_ror"
    /\ UNCHANGED <<input_pdf, extracted_text, fields, ror_id_affiliation,
                   ror_id_funder, funder_id_from_ror, funder_id, crossref_info,
                   author_works, output>>

SearchRor(Replies) ==
    /\ pc = "search_ror"
    /\ \E resp \in Replies :
          /\ response' = resp
          /\ ror_id_affiliation' = search_ror(resp)
    /\ calls' = Called("search_ror")
    /\ pc' = "search_ror_for_funder"
    /\ UNCHANGED <<input_pdf, extracted_text, fields, orcid_id, ror_id_funder,
                   funder_id_from_ror, funder_id, crossref_info, author_works,
                   output>>

SearchRorForFunder(Replies) ==
    /\ pc = "search_ror_for_funder"
    /\ \E resp \in Replies :
          LET r == search_ror_for_funder(resp)
          IN  /\ response' = resp
              /\ ror_id_funder' = r.value[1]
              /\ funder_id_from_ror' = r.value[2]
              /\ pc' = IF r.raised THEN "crashed" ELSE "search_funder_registry"
    /\ calls' = Called("search_ror_for_funder")
    /\ UNCHANGED <<input_pdf, extracted_text, fields, orcid_id,
                   ror_id_affiliation, funder_id, crossref_info, author_works,
                   output>>

SearchFunderRegistry(Replies) ==
    /\ pc = "search_funder_registry"
    /\ \E resp \in Replies :
          LET r == search_funder_registry(funder_name, resp)
          IN  /\ response' = resp
              /\ funder_id' = r.value
              /\ pc' = IF r.raised THEN "crashed" ELSE "get_award_works"
    /\ calls' = Called("search_funder_registry")
    /\ UNCHANGED <<input_pdf, extracted_text, fields, orcid_id,
                   ror_id_affiliation, ror_id_funder, funder_id_from_ror,
                   crossref_info, author_works, output>>

GetAwardWorks(Replies) ==
    /\ pc = "get_award_works"
    /\ \E resp \in Replies :
          /\ response' = resp
          /\ crossref_info' = get_award_works(resp)
    /\ calls' = Called("get_award_works")
    /\ pc' = "author_works"
    /\ UNCHANGED <<input_pdf, extracted_text, fields, orcid_id,
                   ror_id_affiliation, ror_id_funder, funder_id_from_ror,
                   funder_id, author_works, output>>

\* if orcid_id and start_date: search_openalex_works(...) else: None
AuthorWorks(Replies) ==
    /\ pc = "author_works"
    /\ \/ /\ Truthy(orcid_id) /\ Truthy(start_date)
          /\ \E resp \in Replies :
                /\ response' = resp
                /\ author_works' = search_openalex_works(resp)
          /\ calls' = Called("search_openalex_works")
       \/ /\ ~(Truthy(orcid_id) /\ Truthy(start_date))
          /\ author_works' = None
          /\ UNCHANGED <<response, calls>>
    /\ pc' = "compile"
    /\ UNCHANGED <<input_pdf, extracted_text, fields, orcid_id,
                   ror_id_affiliation, ror_id_funder, funder_id_from_ror,
                   funder_id, crossref_info, output>>

compile_results_to_json ==
    [inputs |->
        [dmp_id |-> dmp_id, start_date |-> start_date, end_date |-> end_date,
         last_modified |-> last_modified, affiliation |-> affiliation,
         funder_name |-> funder_name,
         funding_opportunity_number |-> funding_opportunity_number],
     matches |->
        [dmp_id |-> [input |-> dmp_id],
         creator_orcid |-> [input |-> <<creator, affiliation>>,
                            orcid |-> orcid_id],
         affiliation |-> [input |-> affiliation, ror_id |-> ror_id_affiliation],
         funder_name |-> [input |-> funder_name, funder_id |-> funder_id,
                          ror_id |-> ror_id_funder,
                          funder_id_from_ror |-> funder_id_from_ror],
         funding_opportunity_number |->
            [input |-> funding_opportunity_number,
             crossref_award_works |-> crossref_info],
         author_works |-> [inputs |-> [orcid_id |-> orcid_id,
                                       start_date |-> start_date],
                           dois |-> author_works]]]

Compile ==
    /\ pc = "compile"
    /\ output' = Some(compile_results_to_json)
    /\ pc' = "done"
    /\ UNCHANGED <<input_pdf, extracted_text, fields, matches, response, calls>>

\* the replies drawn in the run of main()
MainRorReplies == RorReplies(MaxItems)
MainRorFunderReplies == RorFunderReplies(MaxItems)
MainFunderRegistryReplies == FunderRegistryReplies(MaxItems)
MainAwardReplies == AwardReplies(MaxItems)
MainOpenAlexReplies == OpenAlexReplies(MaxItems)

Next ==
    \/ RenderText
    \/ ExtractFields
    \/ ResolveOrcid(OrcidReplies)
    \/ SearchRor(MainRorReplies)
    \/ SearchRorForFunder(MainRorFunderReplies)
    \/ SearchFunderRegistry(MainFunderRegistryReplies)
    \/ GetAwardWorks(MainAwardReplies)
    \/ AuthorWorks(MainOpenAlexReplies)
    \/ Compile

Spec == Init /\ [][Next]_vars

\* replies of the organization registry that name no candidate
NoCandidateRorReplies == RorReplies(0)
NoCandidateRorFunderReplies == RorFunderReplies(0)
\* the longer replies to the funder-name queries
LongRorFunderReplies == RorFunderReplies(MaxRorItems)
LongFunderRegistryReplies == FunderRegistryReplies(MaxFunderItems)

\* the run up to and including search_ror_for_funder, on longer replies to
\* its query; the organization registry names no candidate before that
NextRorFunder ==
    \/ RenderText
    \/ ExtractFields
    \/ ResolveOrcid(OrcidReplies)
    \/ SearchRor(NoCandidateRorReplies)
    \/ SearchRorForFunder(LongRorFunderReplies)

SpecRorFunder == Init /\ [][NextRorFunder]_vars

\* the run up to and including search_funder_registry, on longer replies to
\* its query; the organization registry names no candidate before that
NextFunderRegistry ==
    \/ RenderText
    \/ ExtractFields
    \/ ResolveOrcid(OrcidReplies)
    \/ SearchRor(NoCandidateRorReplies)
    \/ SearchRorForFunder(NoCandidateRorFunderReplies)
    \/ SearchFunderRegistry(LongFunderRegistryReplies)

SpecFunderRegistry == Init /\ [][NextFunderRegistry]_vars

---------------------------------------------------------------------------
(* The claims *)

Ended == pc \in {"done", "crashed"}

NoCalls == \A l \in Lookups : calls[l] = 0

\* the report's "matches" object
Report == output.val.matches

\* C1: a lookup whose request fails in transport or whose reply cannot be
\* parsed never aborts the run: the run is never left by an exception, and
\* when it has ended the report is emitted and each of the five lookups main()
\* makes unconditionally has been attempted.  The code violates this.
C1_NoLookupFailureAbortsTheRun ==
    /\ pc # "crashed"
    /\ Ended => /\ output.some
                /\ \A l \in Lookups \ {"search_orcid", "search_openalex_works"} :
                      calls[l] = 1

\* C2: when the source document is unreadable the run ends before any
\* extractor is applied: it never gets past the rendering step, makes no
\* lookup and emits no report.  The code violates this.
C2_UnreadableInputEndsTheRun ==
    ~input_pdf.readable =>
        /\ pc \in {"extract_text_from_pdf", "crashed"}
        /\ NoCalls
        /\ output = None

\* the award reply is a failure: transport exception, non-200 status or a
\* body that does not parse or lacks a work's DOI
AwardFailure(resp) ==
    \/ resp.exc
    \/ resp.status # 200
    \/ ~resp.json
    \/ \E i \in 1..Len(resp.items) : ~resp.items[i].has_doi

\* C3: the award lookup always returns a record with exactly the keys dois and
\* funder_ids, never None and never a record without them; on a failed
\* request and on an empty work list both sequences are empty.  The code
\* violates this.
C3_AwardLookupReturnsBothSequences ==
    pc = "author_works" =>
        /\ crossref_info.some
        /\ DOMAIN crossref_info.val = {"dois", "funder_ids"}
        /\ (AwardFailure(response) \/ response.items = <<>>) =>
              /\ crossref_info.val.dois = <<>>
              /\ crossref_info.val.funder_ids = <<>>

\* the tokens of the line of the first Creator label, as written in the text
CreatorLine(text) == LabelMatch(text, "Creator:", NL)

\* the identifier tokens written after 'ORCID:' on the creator line
InlineIdentifiers(text) ==
    IF ~CreatorLine(text).some THEN {}
    ELSE LET line == CreatorLine(text).val
         IN  {line[i] : i \in {j \in 2..Len(line) : line[j - 1] = "ORCID:"}}

\* the document carries a lexically valid inline researcher identifier
HasValidInlineIdentifier ==
    /\ input_pdf.readable
    /\ \E tok \in InlineIdentifiers(input_pdf.content) : OrcidPattern(tok)

\* the first token of the text that has the identifier shape
FirstIdentifier(text) ==
    text[Min({i \in 1..Len(text) : OrcidPattern(text[i])})]

BothResolved == Truthy(orcid_id) /\ start_date.some

\* C5: when the run has ended, the works-by-author lookup has been called
\* exactly if a researcher identifier and a start date were both resolved;
\* when either is absent it was not called and the report's author_works dois
\* is null.  The code violates this where an earlier lookup aborts the run.
C5_AuthorWorksCalledIffBothResolved ==
    Ended =>
        /\ (calls["search_openalex_works"] = 1) <=> BothResolved
        /\ ~BothResolved =>
              /\ calls["search_openalex_works"] = 0
              /\ output.some => Report.author_works.dois = None

\* C6: for the document that holds the DMP ID label and nothing else, the
\* report has the extracted URL as matches.dmp_id.input and null for every
\* other match result, whatever the registries answer.  The code violates
\* this.
C6_OnlyDmpIdMeansOnlyDmpIdMatch ==
    (input_pdf.readable /\ input_pdf.content = ScenarioA /\ output.some) =>
        /\ Report.dmp_id.input = Some(<<DmpUrl>>)
        /\ Report.creator_orcid.orcid = None
        /\ Report.affiliation.ror_id = None
        /\ Report.funder_name.funder_id = None
        /\ Report.funder_name.ror_id = None
        /\ Report.funder_name.funder_id_from_ror = None
        /\ Report.funding_opportunity_number.crossref_award_works = None
        /\ Report.author_works.dois = None

\* the identity step of main() has run
IdentityResolved ==
    pc \notin {"extract_text_from_pdf", "extract", "orcid", "crashed"}

\* C7: whenever the extractor yielded no inline researcher identifier, also
\* when the text mentions ORCID without a valid identifier, the registry
\* search is issued once the identity step has run.  The code violates this.
C7_SearchWheneverNoInlineIdentifier ==
    (IdentityResolved /\ ~extract_orcid(extracted_text.val).some) =>
        calls["search_orcid"] = 1

\* C8: the inline-identifier flag is true exactly when the text matched by
\* the Creator field contains 'ORCID', and an identifier taken from the
\* text comes from that matched text.  The code violates this.
C8_FlagAndIdentifierComeFromCreatorField ==
    IdentityResolved =>
        LET line == CreatorLine(extracted_text.val)
        IN  /\ orcid_present <=>
                  (line.some /\ \E i \in 1..Len(line.val) : ContainsORCID(line.val[i]))
            /\ (orcid_present /\ orcid_id.some) =>
                  (line.some /\ \E i \in 1..Len(line.val) : <<line.val[i]>> = orcid_id.val)

\* the positions of the candidates flagged chosen
ChosenAt(items) == {i \in 1..Len(items) : items[i].chosen}

\* C9: after the funder-name organization query, the outputs are those of the
\* first candidate flagged chosen: its id, and as cross-reference its
\* preferred one if it has one, else its single alternative if it has exactly
\* one, else null; both outputs are null when no candidate is flagged chosen.
C9_FunderCrossReferenceOfFirstChosen ==
    pc = "search_funder_registry" =>
        IF ChosenAt(response.items) = {}
        THEN ror_id_funder = None /\ funder_id_from_ror = None
        ELSE LET first == response.items[Min(ChosenAt(response.items))]
             IN  /\ ror_id_funder = Some(first.id)
                 /\ first.preferred.some => funder_id_from_ror = first.preferred
                 /\ (~first.preferred.some /\ Len(first.all) = 1) =>
                        funder_id_from_ror = Some(first.all[1])
                 /\ (~first.preferred.some /\ Len(first.all) # 1) =>
                        funder_id_from_ror = None

\* the second candidate is the first chosen one and has one alternative and
\* no preferred cross-reference
C9_Witness ==
    /\ pc = "search_funder_registry"
    /\ Len(response.items) = 2
    /\ ~response.items[1].chosen /\ response.items[1].preferred.some
    /\ response.items[2].chosen /\ ~response.items[2].preferred.some
    /\ funder_id_from_ror = Some(21)

\* candidate i of the reply clears one of the two tests for the funder name
Clears(items, i) ==
    \/ token_sort_ratio(funder_name, Some(normalize_text(items[i].name)))
          > MatchRatio
    \/ \E k \in 1..Len(items[i].alt_names) :
          funder_name = Some(items[i].alt_names[k])

\* C10: after the funder-registry query, the funder id is the id of the first
\* candidate of the reply that scores above the threshold or lists the raw
\* funder name among its alternate names, and null when no candidate does.
C10_FirstCandidateClearingEitherTest ==
    pc = "get_award_works" =>
        LET clearing == {i \in 1..Len(response.items) : Clears(response.items, i)}
        IN  IF clearing = {} THEN funder_id = None
            ELSE funder_id = Some(response.items[Min(clearing)].id)

\* the first candidate clears neither test, the second only the
\* alternate-name test
C10_Witness ==
    /\ pc = "get_award_works"
    /\ Len(response.items) = 2
    /\ funder_id = Some(102)
    /\ token_sort_ratio(funder_name, Some(normalize_text(response.items[2].name)))
          <= MatchRatio

====
